---- MODULE Spec2Model ----
(***************************************************************************)
(* Model of src/file_upload.py: the Streamlit upload form, the per-file    *)
(* multipart upload to S3, the pre-signed URLs and the HTML gallery.       *)
(*                                                                         *)
(* Strings the code concatenates (object keys, URLs) are sequences of      *)
(* tokens; None and the empty string are the empty sequence, so Python's   *)
(* truthiness test `if x:` is x # <<>>.  A file's content is the sequence  *)
(* of its byte positions 0..size-1, so a chunk is a range <<lo, hi>> of    *)
(* positions (hi exclusive).  Every S3 call is two steps, the call and     *)
(* its return, and the return draws the outcome the service gives.  The    *)
(* local file system is taken to be reliable.  One press of the Upload     *)
(* button is modelled, from the filled form to the end of the script run.  *)
(***************************************************************************)
EXTENDS Integers, Sequences, FiniteSets, TLC

VARIABLES
    bucket_name,      \* text field of the form, a sequence of code points
    uploaded_files,   \* files of the picker, a sequence of [name, size]
    pc,               \* position of the script
    ui,               \* messages rendered by Streamlit, in order
    session_id,       \* uuid4 of the invocation
    image_links,      \* list of pre-signed URLs fed to the gallery
    i,                \* index of the current file of the for loop
    upload_id,        \* local of multipart_upload; NoUploadId = unbound
    part_number,      \* enumerate(..., 1) counter
    offset,           \* read position of the open temp file
    chunk,            \* chunk last read, <<lo, hi>>
    parts,            \* part descriptors collected
    object_path,      \* result of multipart_upload
    gallery_link,     \* result of upload_multiple_images_to_s3
    disk,             \* names of the local files that exist
    inflight,         \* S3 calls issued and not yet returned
    log,              \* history of the steps taken, in order
    next_upload_id,   \* S3: the upload id the next create returns
    open_sessions,    \* S3: upload ids created, neither completed nor aborted
    objects           \* S3: object keys stored in the bucket

vars == <<bucket_name, uploaded_files, pc, ui, session_id, image_links, i,
          upload_id, part_number, offset, chunk, parts, object_path,
          gallery_link, disk, inflight, log, next_upload_id, open_sessions,
          objects>>

(***************************************************************************)
(* Bounds and input sets                                                   *)
(***************************************************************************)
MaxFiles == 2

MaxParts == 2

chunk_size == 5 * 1024 * 1024

expiration == 3600

\* The size of a file that is read as k chunks, the last one a single byte.
SizeOfParts(k) == IF k = 0 THEN 0 ELSE (k - 1) * chunk_size + 1

ImageNames == <<(<<"a", ".", "jpg">>), (<<"b", ".", "png">>)>>

\* The files the user may try to pick: one per number of parts 0..MaxParts,
\* named in turn so that files with equal and with different names occur,
\* and one that is no image.  Names are token sequences stem . extension.
CandidateFiles ==
    {[name |-> ImageNames[(k % 2) + 1], size |-> SizeOfParts(k)] : k \in 0..MaxParts}
        \cup {[name |-> <<"gallery", ".", "html">>, size |-> 1]}

\* st.file_uploader(..., type=["png", "jpg", "jpeg"]): the picker's filter
AcceptedType(name) == name[Len(name)] \in {"png", "jpg", "jpeg"}

Files == {f \in CandidateFiles : AcceptedType(f.name)}

\* The text of the bucket field, a sequence of code points: empty, blank in
\* several ways (space, TAB, LF with NO-BREAK SPACE, EM SPACE), and " b".
BucketNames == {<<>>, <<32>>, <<9>>, <<10, 160>>, <<8195>>, <<32, 98>>}

SessionIds == {"s1", "s2"}

None == <<>>

NoUploadId == 0

Outcomes == {"ok", "err"}

\* s3_client.generate_presigned_url returns the URL, raises the ClientError
\* the handler of line 65 turns into None, or raises another exception,
\* which that handler does not catch
PresignOutcomes == {"ok", "ClientError", "other"}

RECURSIVE SeqsUpTo(_, _)
SeqsUpTo(S, n) ==
    IF n = 0 THEN {<<>>}
    ELSE LET shorter == SeqsUpTo(S, n - 1)
         IN  shorter \cup {Append(s, x) : s \in {t \in shorter : Len(t) = n - 1}, x \in S}

(***************************************************************************)
(* Pure helpers                                                            *)
(***************************************************************************)
Min(a, b) == IF a < b THEN a ELSE b

\* The code points str.strip() takes for whitespace (str.isspace).
Whitespace ==
    (9..13) \cup (28..32) \cup {133, 160, 5760} \cup (8192..8202)
        \cup {8232, 8233, 8239, 8287, 12288}

IsSpace(c) == c \in Whitespace

\* str.strip(): drop leading and trailing whitespace.
RECURSIVE LStrip(_)
LStrip(s) == IF s # <<>> /\ IsSpace(Head(s)) THEN LStrip(Tail(s)) ELSE s

RECURSIVE RStrip(_)
RStrip(s) ==
    IF s # <<>> /\ IsSpace(s[Len(s)]) THEN RStrip(SubSeq(s, 1, Len(s) - 1)) ELSE s

Strip(s) == RStrip(LStrip(s))

Truthy(x) == x # <<>>

\* the f prefix forgotten: the folder is the same for every invocation
FolderName_NoSession(sid) == <<"uploads", "/", "{session_id}">>

\* f"uploads/{session_id}"
FolderName(sid) == <<"uploads", "/", sid>>

\* f"{folder_name}/{object_name}"
FullObjectName(folder, object_name) == folder \o <<"/">> \o object_name

\* f"{folder_name}/gallery.html"
HtmlFileName(folder) == folder \o <<"/", "gallery", ".", "html">>

\* the local file create_preview_html writes and removes
LocalGallery == <<"gallery", ".", "html">>

\* file.read() with the size left out: the rest of the file in one chunk
ReadChunk_Whole(size, off) == <<off, size>>

\* file.read(chunk_size) at position off of a file of the given size
ReadChunk(size, off) == <<off, Min(off + chunk_size, size)>>

IsEmptyChunk(c) == c[1] = c[2]

\* the ETag S3 returns for a part: a digest of the part's body
ETagOf(body) == <<"etag", body[1], body[2]>>

\* {'ETag': part_response['ETag'], 'PartNumber': part_number}
PartDescriptor(etag, pn) == [ETag |-> etag, PartNumber |-> pn]

\* the URL s3_client.generate_presigned_url signs for a key
PresignedUrl(key) == <<"url", expiration>> \o key

\* the URL is generated and not kept
AppendLink_Dropped(links, url) == links

\* image_links.append(presigned_url)
AppendLink(links, url) == Append(links, url)

\* the handler aborts whatever failed, as an earlier draft of the script did
AbortNeeded_Always(uid) == TRUE

\* the handler never aborts
AbortNeeded_Never(uid) == FALSE

\* if 'upload_id' in locals(): the handler aborts when a session was opened
AbortNeeded(uid) == uid # NoUploadId

\* a hand-kept counter that is never advanced
NextPartNumber_NoIncrement(pn) == 1

\* enumerate(..., 1): the number of the next part
NextPartNumber(pn) == pn + 1

\* the loop stops one file early
LoopDone_OffByOne(idx, n) == idx >= n

\* for file in files: the loop ends after the last file
LoopDone(idx, n) == idx > n

\* the failure of a part is swallowed and the loop goes on
AfterPartFailure_Continue == "mp_read"

\* except Exception: where a failed upload_part continues
AfterPartFailure == "mp_except"

(***************************************************************************)
(* History                                                                 *)
(***************************************************************************)
Event(op, idx, key, uid, pn, body, arg) ==
    [op |-> op, i |-> idx, Key |-> key, UploadId |-> uid, PartNumber |-> pn,
     Body |-> body, arg |-> arg, res |-> "pending", ETag |-> <<>>]

LocalEvent(op, idx, key, arg) ==
    [op |-> op, i |-> idx, Key |-> key, UploadId |-> NoUploadId, PartNumber |-> 0,
     Body |-> <<>>, arg |-> arg, res |-> "ok", ETag |-> <<>>]

SetLast(l, res, etag) ==
    [l EXCEPT ![Len(l)] = [@ EXCEPT !.res = res, !.ETag = etag]]

CurFile == uploaded_files[i]

CurKey == FullObjectName(FolderName(session_id), CurFile.name)

(***************************************************************************)
(* Init: the form as the user filled it in, nothing run yet                *)
(***************************************************************************)
Init ==
    /\ bucket_name \in BucketNames
    /\ uploaded_files \in SeqsUpTo(Files, MaxFiles)
    /\ pc = "form"
    /\ ui = <<>>
    /\ session_id = ""
    /\ image_links = <<>>
    /\ i = 0
    /\ upload_id = NoUploadId
    /\ part_number = 0
    /\ offset = 0
    /\ chunk = <<0, 0>>
    /\ parts = <<>>
    /\ object_path = None
    /\ gallery_link = None
    /\ disk = {}
    /\ inflight = {}
    /\ log = <<>>
    /\ next_upload_id = 1
    /\ open_sessions = {}
    /\ objects = {}

(***************************************************************************)
(* The Streamlit script, lines 176-190: the Upload button                  *)
(***************************************************************************)
Msg(kind, link) == [kind |-> kind, link |-> link]

\* An exception nothing catches leaves upload_multiple_images_to_s3 and the
\* script; Streamlit renders it in place of the script's own messages.
Uncaught ==
    /\ pc' = "done"
    /\ ui' = Append(ui, Msg("exception", None))

\* if not bucket_name.strip(): st.error(...)
UploadBlankBucket ==
    /\ pc = "form"
    /\ ~Truthy(Strip(bucket_name))
    /\ pc' = "done"
    /\ ui' = Append(ui, Msg("error_bucket", None))
    /\ UNCHANGED <<bucket_name, uploaded_files, session_id, image_links, i,
                   upload_id, part_number, offset, chunk, parts, object_path,
                   gallery_link, disk, inflight, log, next_upload_id,
                   open_sessions, objects>>

\* elif uploaded_files: upload_multiple_images_to_s3(...), lines 146-148
UploadInvoke ==
    /\ pc = "form"
    /\ Truthy(Strip(bucket_name))
    /\ Truthy(uploaded_files)
    /\ \E sid \in SessionIds : session_id' = sid
    /\ image_links' = <<>>
    /\ i' = 1
    /\ pc' = "loop"
    /\ UNCHANGED <<bucket_name, uploaded_files, ui, upload_id, part_number,
                   offset, chunk, parts, object_path, gallery_link, disk,
                   inflight, log, next_upload_id, open_sessions, objects>>

\* else: st.warning(...)
UploadNoFiles ==
    /\ pc = "form"
    /\ Truthy(Strip(bucket_name))
    /\ ~Truthy(uploaded_files)
    /\ pc' = "done"
    /\ ui' = Append(ui, Msg("warning_files", None))
    /\ UNCHANGED <<bucket_name, uploaded_files, session_id, image_links, i,
                   upload_id, part_number, offset, chunk, parts, object_path,
                   gallery_link, disk, inflight, log, next_upload_id,
                   open_sessions, objects>>

(***************************************************************************)
(* upload_multiple_images_to_s3, lines 150-161: the loop over the files    *)
(***************************************************************************)
\* for file in files: open(file.name, "wb").write(file.read()); then the call
\* of multipart_upload, whose frame starts with upload_id unbound.  The
\* caller's object_path keeps the previous file's result until line 155
\* binds this file's.
WriteTemp ==
    /\ pc = "loop"
    /\ ~LoopDone(i, Len(uploaded_files))
    /\ disk' = disk \cup {CurFile.name}
    /\ log' = Append(log, LocalEvent("write", i, CurFile.name, <<>>))
    /\ upload_id' = NoUploadId
    /\ parts' = <<>>
    /\ part_number' = 0
    /\ offset' = 0
    /\ chunk' = <<0, 0>>
    /\ pc' = "mp_create"
    /\ UNCHANGED <<bucket_name, uploaded_files, ui, session_id, image_links, i,
                   object_path, gallery_link, inflight, next_upload_id,
                   open_sessions, objects>>

\* the for loop is exhausted
LoopExit ==
    /\ pc = "loop"
    /\ LoopDone(i, Len(uploaded_files))
    /\ pc' = "render"
    /\ UNCHANGED <<bucket_name, uploaded_files, ui, session_id, image_links, i,
                   upload_id, part_number, offset, chunk, parts, object_path,
                   gallery_link, disk, inflight, log, next_upload_id,
                   open_sessions, objects>>

(***************************************************************************)
(* multipart_upload, lines 17-52                                           *)
(***************************************************************************)
\* s3_client.create_multipart_upload(Bucket, Key, ContentType)
CreateCall ==
    /\ pc = "mp_create"
    /\ inflight' = inflight \cup {"create_multipart_upload"}
    /\ log' = Append(log, Event("create", i, CurKey, NoUploadId, 0, <<>>, <<>>))
    /\ pc' = "mp_create_wait"
    /\ UNCHANGED <<bucket_name, uploaded_files, ui, session_id, image_links, i,
                   upload_id, part_number, offset, chunk, parts, object_path,
                   gallery_link, disk, next_upload_id, open_sessions, objects>>

\* upload_id = response['UploadId']; parts = []; open(file_path, 'rb')
CreateReturn ==
    /\ pc = "mp_create_wait"
    /\ inflight' = inflight \ {"create_multipart_upload"}
    /\ \E r \in Outcomes :
        \/ /\ r = "ok"
           /\ upload_id' = next_upload_id
           /\ next_upload_id' = next_upload_id + 1
           /\ open_sessions' = open_sessions \cup {next_upload_id}
           /\ log' = [SetLast(log, "ok", <<>>) EXCEPT ![Len(log)].UploadId = next_upload_id]
           /\ pc' = "mp_read"
        \/ /\ r = "err"
           /\ log' = SetLast(log, "err", <<>>)
           /\ pc' = "mp_except"
           /\ UNCHANGED <<upload_id, next_upload_id, open_sessions>>
    /\ UNCHANGED <<bucket_name, uploaded_files, ui, session_id, image_links, i,
                   part_number, offset, chunk, parts, object_path,
                   gallery_link, disk, objects>>

\* enumerate(iter(lambda: file.read(chunk_size), b''), 1): the next chunk, or
\* the end of the loop on the empty read
ReadNext ==
    /\ pc = "mp_read"
    /\ LET c == ReadChunk(CurFile.size, offset)
       IN  /\ chunk' = c
           /\ offset' = c[2]
           /\ IF IsEmptyChunk(c)
              THEN /\ pc' = "mp_complete"
                   /\ UNCHANGED part_number
              ELSE /\ pc' = "mp_part"
                   /\ part_number' = NextPartNumber(part_number)
    /\ UNCHANGED <<bucket_name, uploaded_files, ui, session_id, image_links, i,
                   upload_id, parts, object_path, gallery_link, disk, inflight,
                   log, next_upload_id, open_sessions, objects>>

\* s3_client.upload_part(Bucket, Key, PartNumber, UploadId, Body)
UploadPartCall ==
    /\ pc = "mp_part"
    /\ inflight' = inflight \cup {"upload_part"}
    /\ log' = Append(log, Event("upload_part", i, CurKey, upload_id, part_number, chunk, <<>>))
    /\ pc' = "mp_part_wait"
    /\ UNCHANGED <<bucket_name, uploaded_files, ui, session_id, image_links, i,
                   upload_id, part_number, offset, chunk, parts, object_path,
                   gallery_link, disk, next_upload_id, open_sessions, objects>>

\* parts.append({'ETag': part_response['ETag'], 'PartNumber': part_number})
UploadPartReturn ==
    /\ pc = "mp_part_wait"
    /\ inflight' = inflight \ {"upload_part"}
    /\ \E r \in Outcomes :
        \/ /\ r = "ok"
           /\ log' = SetLast(log, "ok", ETagOf(chunk))
           /\ parts' = Append(parts, PartDescriptor(ETagOf(chunk), part_number))
           /\ pc' = "mp_read"
        \/ /\ r = "err"
           /\ log' = SetLast(log, "err", <<>>)
           /\ pc' = AfterPartFailure
           /\ UNCHANGED parts
    /\ UNCHANGED <<bucket_name, uploaded_files, ui, session_id, image_links, i,
                   upload_id, part_number, offset, chunk, object_path,
                   gallery_link, disk, next_upload_id, open_sessions, objects>>

\* s3_client.complete_multipart_upload(Bucket, Key, MultipartUpload, UploadId)
CompleteCall ==
    /\ pc = "mp_complete"
    /\ inflight' = inflight \cup {"complete_multipart_upload"}
    /\ log' = Append(log, Event("complete", i, CurKey, upload_id, 0, <<>>, parts))
    /\ pc' = "mp_complete_wait"
    /\ UNCHANGED <<bucket_name, uploaded_files, ui, session_id, image_links, i,
                   upload_id, part_number, offset, chunk, parts, object_path,
                   gallery_link, disk, next_upload_id, open_sessions, objects>>

\* return full_object_name
CompleteReturn ==
    /\ pc = "mp_complete_wait"
    /\ inflight' = inflight \ {"complete_multipart_upload"}
    /\ \E r \in Outcomes :
        \/ /\ r = "ok"
           /\ log' = SetLast(log, "ok", <<>>)
           /\ open_sessions' = open_sessions \ {upload_id}
           /\ objects' = objects \cup {CurKey}
           /\ object_path' = CurKey
           /\ pc' = "after_mp"
        \/ /\ r = "err"
           /\ log' = SetLast(log, "err", <<>>)
           /\ pc' = "mp_except"
           /\ UNCHANGED <<open_sessions, objects, object_path>>
    /\ UNCHANGED <<bucket_name, uploaded_files, ui, session_id, image_links, i,
                   upload_id, part_number, offset, chunk, parts, gallery_link,
                   disk, next_upload_id>>

\* except Exception: if 'upload_id' in locals(): abort_multipart_upload(...)
ExceptAbortCall ==
    /\ pc = "mp_except"
    /\ AbortNeeded(upload_id)
    /\ inflight' = inflight \cup {"abort_multipart_upload"}
    /\ log' = Append(log, Event("abort", i, CurKey, upload_id, 0, <<>>, <<>>))
    /\ pc' = "mp_abort_wait"
    /\ UNCHANGED <<bucket_name, uploaded_files, ui, session_id, image_links, i,
                   upload_id, part_number, offset, chunk, parts, object_path,
                   gallery_link, disk, next_upload_id, open_sessions, objects>>

\* except Exception: no upload_id in locals(): return None
ExceptNoSession ==
    /\ pc = "mp_except"
    /\ ~AbortNeeded(upload_id)
    /\ object_path' = None
    /\ pc' = "after_mp"
    /\ UNCHANGED <<bucket_name, uploaded_files, ui, session_id, image_links, i,
                   upload_id, part_number, offset, chunk, parts, gallery_link,
                   disk, inflight, log, next_upload_id, open_sessions, objects>>

\* the abort returns: return None; or it raises inside the except block,
\* which nothing catches
AbortReturn ==
    /\ pc = "mp_abort_wait"
    /\ inflight' = inflight \ {"abort_multipart_upload"}
    /\ \E r \in Outcomes :
        \/ /\ r = "ok"
           /\ log' = SetLast(log, "ok", <<>>)
           /\ open_sessions' = open_sessions \ {upload_id}
           /\ object_path' = None
           /\ pc' = "after_mp"
           /\ UNCHANGED ui
        \/ /\ r = "err"
           /\ log' = SetLast(log, "err", <<>>)
           /\ Uncaught
           /\ UNCHANGED <<open_sessions, object_path>>
    /\ UNCHANGED <<bucket_name, uploaded_files, session_id, image_links, i,
                   upload_id, part_number, offset, chunk, parts, gallery_link,
                   disk, next_upload_id, objects>>

(***************************************************************************)
(* upload_multiple_images_to_s3, lines 156-161, and generate_presigned_url *)
(***************************************************************************)
\* if object_path: presigned_url = generate_presigned_url(...);
\* if presigned_url: image_links.append(presigned_url).  The helper catches
\* ClientError only: any other exception leaves it, the loop and the script.
PresignImage ==
    /\ pc = "after_mp"
    /\ Truthy(object_path)
    /\ \E r \in PresignOutcomes :
        \/ /\ r = "ok"
           /\ log' = Append(log, LocalEvent("presign", i, object_path, PresignedUrl(object_path)))
           /\ image_links' = AppendLink(image_links, PresignedUrl(object_path))
           /\ pc' = "remove"
           /\ UNCHANGED ui
        \/ /\ r = "ClientError"
           /\ log' = Append(log, [LocalEvent("presign", i, object_path, None) EXCEPT !.res = "err"])
           /\ pc' = "remove"
           /\ UNCHANGED <<image_links, ui>>
        \/ /\ r = "other"
           /\ log' = Append(log, [LocalEvent("presign", i, object_path, None) EXCEPT !.res = "err"])
           /\ Uncaught
           /\ UNCHANGED image_links
    /\ UNCHANGED <<bucket_name, uploaded_files, session_id, i, upload_id,
                   part_number, offset, chunk, parts, object_path, gallery_link,
                   disk, inflight, next_upload_id, open_sessions, objects>>

\* object_path is None: no URL for this file
SkipPresign ==
    /\ pc = "after_mp"
    /\ ~Truthy(object_path)
    /\ pc' = "remove"
    /\ UNCHANGED <<bucket_name, uploaded_files, ui, session_id, image_links, i,
                   upload_id, part_number, offset, chunk, parts, object_path,
                   gallery_link, disk, inflight, log, next_upload_id,
                   open_sessions, objects>>

\* os.remove(file.name), and on to the next file
RemoveTemp ==
    /\ pc = "remove"
    /\ disk' = disk \ {CurFile.name}
    /\ log' = Append(log, LocalEvent("remove", i, CurFile.name, <<>>))
    /\ i' = i + 1
    /\ pc' = "loop"
    /\ UNCHANGED <<bucket_name, uploaded_files, ui, session_id, image_links,
                   upload_id, part_number, offset, chunk, parts, object_path,
                   gallery_link, inflight, next_upload_id, open_sessions,
                   objects>>

(***************************************************************************)
(* create_preview_html, lines 70-141, and lines 164-167                    *)
(***************************************************************************)
\* one block per link, written to the local gallery.html
RenderGallery ==
    /\ pc = "render"
    /\ disk' = disk \cup {LocalGallery}
    /\ log' = Append(log, LocalEvent("render", i, LocalGallery, image_links))
    /\ pc' = "g_upload"
    /\ UNCHANGED <<bucket_name, uploaded_files, ui, session_id, image_links, i,
                   upload_id, part_number, offset, chunk, parts, object_path,
                   gallery_link, inflight, next_upload_id, open_sessions,
                   objects>>

\* s3_client.upload_file("gallery.html", bucket_name, html_file_name, ...)
GalleryUploadCall ==
    /\ pc = "g_upload"
    /\ inflight' = inflight \cup {"upload_file"}
    /\ log' = Append(log, Event("upload_file", i, HtmlFileName(FolderName(session_id)),
                                NoUploadId, 0, <<>>, <<>>))
    /\ pc' = "g_upload_wait"
    /\ UNCHANGED <<bucket_name, uploaded_files, ui, session_id, image_links, i,
                   upload_id, part_number, offset, chunk, parts, object_path,
                   gallery_link, disk, next_upload_id, open_sessions, objects>>

\* the upload returns, or raises: create_preview_html has no handler
GalleryUploadReturn ==
    /\ pc = "g_upload_wait"
    /\ inflight' = inflight \ {"upload_file"}
    /\ \E r \in Outcomes :
        \/ /\ r = "ok"
           /\ log' = SetLast(log, "ok", <<>>)
           /\ objects' = objects \cup {HtmlFileName(FolderName(session_id))}
           /\ pc' = "g_remove"
           /\ UNCHANGED ui
        \/ /\ r = "err"
           /\ log' = SetLast(log, "err", <<>>)
           /\ Uncaught
           /\ UNCHANGED objects
    /\ UNCHANGED <<bucket_name, uploaded_files, session_id, image_links, i,
                   upload_id, part_number, offset, chunk, parts, object_path,
                   gallery_link, disk, next_upload_id, open_sessions>>

\* os.remove("gallery.html"); return html_file_name
RemoveGallery ==
    /\ pc = "g_remove"
    /\ disk' = disk \ {LocalGallery}
    /\ log' = Append(log, LocalEvent("g_remove", i, LocalGallery, <<>>))
    /\ pc' = "g_presign"
    /\ UNCHANGED <<bucket_name, uploaded_files, ui, session_id, image_links, i,
                   upload_id, part_number, offset, chunk, parts, object_path,
                   gallery_link, inflight, next_upload_id, open_sessions,
                   objects>>

\* return generate_presigned_url(bucket_name, html_object_path); an exception
\* other than ClientError leaves the helper, the function and the script
PresignGallery ==
    /\ pc = "g_presign"
    /\ LET key == HtmlFileName(FolderName(session_id))
       IN  \E r \in PresignOutcomes :
            \/ /\ r = "ok"
               /\ log' = Append(log, LocalEvent("g_presign", i, key, PresignedUrl(key)))
               /\ gallery_link' = PresignedUrl(key)
               /\ pc' = "returned"
               /\ UNCHANGED ui
            \/ /\ r = "ClientError"
               /\ log' = Append(log, [LocalEvent("g_presign", i, key, None) EXCEPT !.res = "err"])
               /\ gallery_link' = None
               /\ pc' = "returned"
               /\ UNCHANGED ui
            \/ /\ r = "other"
               /\ log' = Append(log, [LocalEvent("g_presign", i, key, None) EXCEPT !.res = "err"])
               /\ Uncaught
               /\ UNCHANGED gallery_link
    /\ UNCHANGED <<bucket_name, uploaded_files, session_id, image_links, i,
                   upload_id, part_number, offset, chunk, parts, object_path,
                   disk, inflight, next_upload_id, open_sessions, objects>>

(***************************************************************************)
(* The Streamlit script, lines 183-188: the outcome shown                  *)
(***************************************************************************)
\* success is shown only when some image was linked
ShowResult_NeedsLinks ==
    /\ pc = "returned"
    /\ IF Truthy(gallery_link) /\ Truthy(image_links)
       THEN ui' = ui \o <<Msg("success", None), Msg("header", None),
                          Msg("markdown_link", gallery_link)>>
       ELSE ui' = Append(ui, Msg("failure", None))
    /\ pc' = "done"
    /\ UNCHANGED <<bucket_name, uploaded_files, session_id, image_links, i,
                   upload_id, part_number, offset, chunk, parts, object_path,
                   gallery_link, disk, inflight, log, next_upload_id,
                   open_sessions, objects>>

\* if gallery_link: st.success(...), the link; else: st.error(...)
ShowResult ==
    /\ pc = "returned"
    /\ IF Truthy(gallery_link)
       THEN ui' = ui \o <<Msg("success", None), Msg("header", None),
                          Msg("markdown_link", gallery_link)>>
       ELSE ui' = Append(ui, Msg("failure", None))
    /\ pc' = "done"
    /\ UNCHANGED <<bucket_name, uploaded_files, session_id, image_links, i,
                   upload_id, part_number, offset, chunk, parts, object_path,
                   gallery_link, disk, inflight, log, next_upload_id,
                   open_sessions, objects>>

Next ==
    \/ UploadBlankBucket
    \/ UploadInvoke
    \/ UploadNoFiles
    \/ WriteTemp
    \/ LoopExit
    \/ CreateCall
    \/ CreateReturn
    \/ ReadNext
    \/ UploadPartCall
    \/ UploadPartReturn
    \/ CompleteCall
    \/ CompleteReturn
    \/ ExceptAbortCall
    \/ ExceptNoSession
    \/ AbortReturn
    \/ PresignImage
    \/ SkipPresign
    \/ RemoveTemp
    \/ RenderGallery
    \/ GalleryUploadCall
    \/ GalleryUploadReturn
    \/ RemoveGallery
    \/ PresignGallery
    \/ ShowResult

Spec == Init /\ [][Next]_vars

(***************************************************************************)
(* Vocabulary of the properties                                            *)
(***************************************************************************)
N == Len(uploaded_files)

Idx == DOMAIN log

Invoked == session_id # ""

MpOps == {"create", "upload_part", "complete", "abort"}

MpPcs == {"mp_create", "mp_create_wait", "mp_read", "mp_part", "mp_part_wait",
          "mp_complete", "mp_complete_wait", "mp_except", "mp_abort_wait"}

EventsOf(j, op) == {k \in Idx : log[k].i = j /\ log[k].op = op}

Rendered == {k \in Idx : log[k].op = "render"}

AllOk == \A k \in Idx : log[k].res = "ok"

IsBlank(s) == \A n \in DOMAIN s : s[n] \in Whitespace

Shown(kind) == \E m \in DOMAIN ui : ui[m].kind = kind

\* the key the naming convention gives file j, and the gallery
ConventionKey(j) == <<"uploads", "/", session_id, "/">> \o uploaded_files[j].name

ConventionGalleryKey == <<"uploads", "/", session_id, "/", "gallery", ".", "html">>

(***************************************************************************)
(* C1                                                                      *)
(***************************************************************************)
\* C1 as stated: whenever create_preview_html is called its list has exactly
\* N links, one per submitted file, and whenever the function returns it
\* returns a gallery URL.
C1_Original ==
    /\ \A k \in Rendered : Len(log[k].arg) = N
    /\ pc = "returned" => Truthy(gallery_link)

\* C1 amended: the list given to create_preview_html has one link per file
\* whose upload completed and whose URL was generated, so at most N; when no
\* S3 call and no URL generation of the invocation fails it has exactly N
\* links and the gallery URL is returned.
C1_LinksPerSuccessfulFile ==
    /\ \A k \in Rendered :
        /\ Len(log[k].arg) =
              Cardinality({j \in 1..N : \E m \in EventsOf(j, "presign") : log[m].res = "ok"})
        /\ Len(log[k].arg) <= N
    /\ (Invoked /\ pc \in {"returned", "done"} /\ AllOk) =>
        /\ \E k \in Rendered : Len(log[k].arg) = N
        /\ gallery_link = <<"url", 3600>> \o ConventionGalleryKey

C1_Witness ==
    /\ pc = "done"
    /\ AllOk
    /\ N >= 2
    /\ Len(image_links) = N
    /\ Truthy(gallery_link)

(***************************************************************************)
(* C2                                                                      *)
(***************************************************************************)
\* C2: an error of any S3 call of a file's multipart upload (create,
\* upload_part, complete, abort) is caught per file and processing continues:
\* the file's temp file is removed and the next file is written, or after the
\* last file the gallery is rendered.
C2_ErrorsCaughtPerFile ==
    \A k \in Idx :
        (pc = "done" /\ log[k].op \in MpOps /\ log[k].res = "err") =>
            LET j == log[k].i
            IN  /\ EventsOf(j, "remove") # {}
                /\ IF j < N THEN EventsOf(j + 1, "write") # {} ELSE Rendered # {}

(***************************************************************************)
(* C3                                                                      *)
(***************************************************************************)
\* C3: for each file, abort_multipart_upload is called exactly once, with the
\* file's key and upload id, when its create succeeded and a later
\* upload_part or complete failed; never when the create failed; never when
\* the complete succeeded.
C3_AbortIffSessionOpened ==
    \A j \in 1..N :
        LET creates == EventsOf(j, "create")
            opened  == {c \in creates : log[c].res = "ok"}
            aborts  == EventsOf(j, "abort")
            fails   == {k \in Idx : /\ log[k].i = j
                                    /\ log[k].op \in {"upload_part", "complete"}
                                    /\ log[k].res = "err"}
        IN  /\ Cardinality(aborts) <= 1
            /\ \A a \in aborts :
                /\ \E c \in opened :
                    /\ c < a
                    /\ log[a].UploadId = log[c].UploadId
                    /\ log[a].UploadId # NoUploadId
                /\ log[a].Key = ConventionKey(j)
                /\ a - 1 \in fails
            /\ (\E c \in creates : log[c].res = "err") => aborts = {}
            /\ (\E k \in EventsOf(j, "complete") : log[k].res = "ok") => aborts = {}
            /\ \A f \in fails :
                \/ f = Len(log) /\ pc = "mp_except"
                \/ f + 1 \in aborts

C3_Witness ==
    /\ pc = "done"
    /\ \E a \in Idx : log[a].op = "abort" /\ log[a].res = "ok"
    /\ \E c \in Idx : log[c].op = "create" /\ log[c].res = "err"
    /\ \E k \in Idx : log[k].op = "complete" /\ log[k].res = "err"

(***************************************************************************)
(* C4                                                                      *)
(***************************************************************************)
StepRank(op) ==
    CASE op = "write" -> 1
      [] op \in MpOps -> 2
      [] op = "presign" -> 3
      [] op = "remove" -> 4
      [] op = "render" -> 5
      [] op = "upload_file" -> 6
      [] op = "g_remove" -> 7
      [] op = "g_presign" -> 8

GalleryOps == {"render", "upload_file", "g_remove", "g_presign"}

\* step a comes before step b in the stated order
InOrder(a, b) ==
    IF a.op \in GalleryOps
    THEN b.op \in GalleryOps /\ StepRank(a.op) < StepRank(b.op)
    ELSE \/ b.op \in GalleryOps
         \/ a.i < b.i
         \/ a.i = b.i /\ StepRank(a.op) < StepRank(b.op)
         \/ a.i = b.i /\ a.op \in MpOps /\ b.op \in MpOps

\* C4: the steps of one invocation run in the stated order with no overlap:
\* per file, in submission order, write temp file, multipart upload, URL
\* generation, temp-file removal; the gallery is rendered and uploaded after
\* the last file was processed, and its URL generated after its upload.
C4_StepsInOrder ==
    /\ \A k \in Idx : k < Len(log) => log[k].res # "pending" /\ InOrder(log[k], log[k + 1])
    /\ \A k \in Idx :
        /\ log[k].op = "write" =>
              /\ log[k].i \in 1..N
              /\ log[k].Key = uploaded_files[log[k].i].name
              /\ log[k].i > 1 => \E m \in EventsOf(log[k].i - 1, "remove") : m < k
        /\ log[k].op \in MpOps \cup {"presign", "remove"} =>
              \E m \in EventsOf(log[k].i, "write") : m < k
        /\ log[k].op = "presign" =>
              \E m \in EventsOf(log[k].i, "complete") : m < k /\ log[m].res = "ok"
        /\ log[k].op = "render" =>
              \A j \in 1..N : \E m \in EventsOf(j, "remove") : m < k
        /\ log[k].op = "upload_file" => k - 1 \in Rendered
        /\ log[k].op = "g_presign" =>
              \E m \in Idx : m < k /\ log[m].op = "upload_file" /\ log[m].res = "ok"

C4_Witness ==
    /\ pc = "done"
    /\ N >= 2
    /\ \A j \in 1..N : EventsOf(j, "presign") # {}
    /\ \E k \in Idx : log[k].op = "g_presign"

(***************************************************************************)
(* C5                                                                      *)
(***************************************************************************)
\* C5: execution is sequential: at most one multipart session is open, at
\* most one S3 call is in flight, and a file's session is completed or
\* aborted before the next file's temp file is written or its session is
\* created.
C5_Sequential ==
    /\ Cardinality(open_sessions) <= 1
    /\ Cardinality(inflight) <= 1
    /\ Cardinality({k \in Idx : log[k].res = "pending"}) <= 1
    /\ (inflight # {}) <=> (log # <<>> /\ log[Len(log)].res = "pending")
    /\ pc \in {"loop", "mp_create", "mp_create_wait"} => open_sessions = {}
    /\ \A k \in Idx :
        log[k].op \in {"write", "create"} =>
            \A c \in 1..(k - 1) :
                (log[c].op = "create" /\ log[c].res = "ok") =>
                    \E m \in (c + 1)..(k - 1) :
                        /\ log[m].op \in {"complete", "abort"}
                        /\ log[m].res = "ok"
                        /\ log[m].UploadId = log[c].UploadId

C5_Witness ==
    /\ N >= 2
    /\ pc = "mp_read"
    /\ i = 2
    /\ open_sessions = {upload_id}
    /\ \E c \in EventsOf(1, "create") : log[c].res = "ok"
    /\ \E a \in EventsOf(1, "abort") : log[a].res = "ok"

(***************************************************************************)
(* C6                                                                      *)
(***************************************************************************)
\* C6: in every terminal state of an invocation, however it ended, no temp
\* file and no local gallery.html remains on disk.
C6_NoLocalFileRemains ==
    (Invoked /\ pc = "done") => disk = {}

(***************************************************************************)
(* C7                                                                      *)
(***************************************************************************)
\* C7: every key written follows uploads/<session-id>/<original-filename>,
\* the gallery uploads/<session-id>/gallery.html, with one session id for all
\* keys; two files get distinct keys exactly when their names differ, and an
\* image key differs from the gallery key exactly when the name is not
\* gallery.html.
C7_NamingConvention ==
    /\ Invoked => session_id \in SessionIds
    /\ \A k \in Idx :
        /\ log[k].op \in MpOps => log[k].Key = ConventionKey(log[k].i)
        /\ log[k].op = "upload_file" => log[k].Key = ConventionGalleryKey
        /\ log[k].op = "presign" /\ log[k].res = "ok" =>
              log[k].arg = <<"url", 3600>> \o ConventionKey(log[k].i)
    /\ \A key \in objects :
        \/ key = ConventionGalleryKey
        \/ \E j \in 1..N : key = ConventionKey(j)
    /\ \A k1, k2 \in Idx :
        (log[k1].op \in MpOps \cup {"upload_file"} /\ log[k2].op \in MpOps \cup {"upload_file"}) =>
            SubSeq(log[k1].Key, 1, 4) = SubSeq(log[k2].Key, 1, 4)
    /\ \A k1, k2 \in Idx :
        (log[k1].op = "create" /\ log[k2].op = "create") =>
            ((log[k1].Key # log[k2].Key) <=>
                (uploaded_files[log[k1].i].name # uploaded_files[log[k2].i].name))
    /\ \A k \in Idx, g \in Idx :
        (log[k].op = "create" /\ log[g].op = "upload_file") =>
            ((log[k].Key # log[g].Key) <=>
                (uploaded_files[log[k].i].name # <<"gallery", ".", "html">>))

C7_Witness ==
    /\ pc = "done"
    /\ \E g \in Idx : log[g].op = "upload_file" /\ log[g].res = "ok"
    /\ \E k1, k2 \in Idx :
        /\ log[k1].op = "create" /\ log[k2].op = "create"
        /\ log[k1].i # log[k2].i
        /\ log[k1].Key = log[k2].Key
        /\ log[k1].Key \in objects

(***************************************************************************)
(* C8                                                                      *)
(***************************************************************************)
\* C8: pressing Upload with a blank bucket name shows an error, writes no
\* file and makes no S3 call; with a bucket name and no file it shows a
\* warning and makes no S3 call; the upload runs only for a non-blank bucket
\* name and at least one file; the gallery link is rendered only when a
\* non-empty URL was returned, and otherwise the failure message is shown.
C8_UploadOnlyForValidForm ==
    /\ log # <<>> => ~IsBlank(bucket_name) /\ N >= 1
    /\ disk # {} => ~IsBlank(bucket_name) /\ N >= 1
    /\ Invoked => ~IsBlank(bucket_name) /\ N >= 1
    /\ pc = "done" =>
        /\ IsBlank(bucket_name) => ui = <<Msg("error_bucket", None)>> /\ ~Invoked
        /\ (~IsBlank(bucket_name) /\ N = 0) => ui = <<Msg("warning_files", None)>> /\ ~Invoked
        /\ \A m \in DOMAIN ui :
            ui[m].kind = "markdown_link" => Truthy(gallery_link) /\ ui[m].link = gallery_link
        /\ (Invoked /\ ~Shown("markdown_link")) => Shown("failure")

(***************************************************************************)
(* C9                                                                      *)
(***************************************************************************)
\* C9: each multipart session follows create -> upload parts ->
\* complete/abort: upload_part and complete use the upload id the file's
\* create returned and come after it; complete is called at most once and
\* only after every part upload succeeded; nothing is called after an abort
\* or a successful complete; no call is retried; every opened session has a
\* successful complete or an abort call once multipart_upload is left.
C9_SessionProtocol ==
    \A j \in 1..N :
        LET creates   == EventsOf(j, "create")
            partcalls == EventsOf(j, "upload_part")
            completes == EventsOf(j, "complete")
            aborts    == EventsOf(j, "abort")
            mine      == creates \cup partcalls \cup completes \cup aborts
        IN  /\ Cardinality(creates) <= 1
            /\ Cardinality(completes) <= 1
            /\ Cardinality(aborts) <= 1
            /\ \A p, q \in partcalls : log[p].PartNumber = log[q].PartNumber => p = q
            /\ \A e \in partcalls \cup completes \cup aborts :
                \E c \in creates :
                    /\ c < e
                    /\ log[c].res = "ok"
                    /\ log[c].UploadId # NoUploadId
                    /\ log[e].UploadId = log[c].UploadId
            /\ \A c \in creates : \A k \in Idx :
                (log[k].op = "create" /\ k # c /\ log[c].res = "ok") =>
                    log[k].UploadId # log[c].UploadId
            /\ \A e \in completes : \A p \in partcalls : p < e /\ log[p].res = "ok"
            /\ \A a \in aborts : \A e \in mine : e <= a
            /\ \A e \in completes : log[e].res = "ok" => \A k \in mine : k <= e
            /\ (j < i \/ pc \notin MpPcs) =>
                \A c \in creates :
                    log[c].res = "ok" =>
                        \/ \E e \in completes : log[e].res = "ok"
                        \/ aborts # {}

C9_Witness ==
    /\ pc = "done"
    /\ \E j \in 1..N :
        /\ Cardinality(EventsOf(j, "upload_part")) >= 2
        /\ \E e \in EventsOf(j, "complete") : log[e].res = "ok"
    /\ \E j \in 1..N :
        /\ \E p \in EventsOf(j, "upload_part") : log[p].res = "err"
        /\ EventsOf(j, "abort") # {}

(***************************************************************************)
(* C10                                                                     *)
(***************************************************************************)
\* C10: parts are numbered 1, 2, .., k in the order the chunks are read, and
\* the Parts list given to complete_multipart_upload has exactly one
\* descriptor (part number, the ETag that part's upload_part returned) per
\* uploaded part, ascending, with no number duplicated or missing.
C10_PartsList ==
    \A j \in 1..N :
        LET partcalls == EventsOf(j, "upload_part")
        IN  /\ \A p \in partcalls :
                /\ log[p].PartNumber = 1 + Cardinality({q \in partcalls : q < p})
                /\ \A q \in partcalls : q < p => log[q].Body[2] <= log[p].Body[1]
            /\ \A e \in EventsOf(j, "complete") :
                LET P == log[e].arg
                IN  /\ Len(P) = Cardinality(partcalls)
                    /\ \A n \in 1..Len(P) :
                        /\ P[n].PartNumber = n
                        /\ \E p \in partcalls :
                            /\ log[p].PartNumber = n
                            /\ log[p].res = "ok"
                            /\ log[p].ETag # <<>>
                            /\ P[n].ETag = log[p].ETag

C10_Witness ==
    \E e \in Idx :
        /\ log[e].op = "complete"
        /\ log[e].res = "ok"
        /\ Len(log[e].arg) >= 2
        /\ log[e].arg[1].ETag # log[e].arg[2].ETag

(***************************************************************************)
(* C11                                                                     *)
(***************************************************************************)
\* File sizes at and next to the multiples of chunk_size, up to MaxParts chunks.
ChunkSizes ==
    {sz \in {k * chunk_size + d : k \in 0..MaxParts, d \in {-1, 0, 1}} :
        sz >= 0 /\ sz <= MaxParts * chunk_size}

\* The form with at most one picked file, of any of these sizes.
InitChunks ==
    /\ bucket_name \in BucketNames
    /\ uploaded_files \in
          {<<>>} \cup {<<[name |-> ImageNames[1], size |-> sz]>> : sz \in ChunkSizes}
    /\ pc = "form"
    /\ ui = <<>>
    /\ session_id = ""
    /\ image_links = <<>>
    /\ i = 0
    /\ upload_id = NoUploadId
    /\ part_number = 0
    /\ offset = 0
    /\ chunk = <<0, 0>>
    /\ parts = <<>>
    /\ object_path = None
    /\ gallery_link = None
    /\ disk = {}
    /\ inflight = {}
    /\ log = <<>>
    /\ next_upload_id = 1
    /\ open_sessions = {}
    /\ objects = {}

SpecChunks == InitChunks /\ [][Next]_vars

FiveMB == 5 * 1024 * 1024

CeilDiv(a, b) == (a + b - 1) \div b

\* C11: the chunk loop has a fixed stride of 5 MB: part n carries the bytes
\* from (n-1) * 5 MB on, every part but the last has exactly 5 MB, the last
\* has 1 to 5 MB; when complete_multipart_upload is called, ceil(S / 5 MB)
\* parts were uploaded and their bodies in order are the file's content; for
\* an empty file no upload_part is called and the Parts list is empty.
C11_FixedStride ==
    \A j \in 1..N :
        LET S         == uploaded_files[j].size
            partcalls == EventsOf(j, "upload_part")
            Prev(p)   == {q \in partcalls : q < p}
        IN  /\ S = 0 => partcalls = {}
            /\ Cardinality(partcalls) <= CeilDiv(S, FiveMB)
            /\ \A p \in partcalls :
                LET b == log[p].Body
                IN  /\ b[1] = Cardinality(Prev(p)) * FiveMB
                    /\ \A q \in Prev(p) : log[q].Body[2] <= b[1]
                    /\ (Prev(p) # {}) => \E q \in Prev(p) : log[q].Body[2] = b[1]
                    /\ b[2] - b[1] >= 1
                    /\ b[2] - b[1] <= FiveMB
                    /\ b[2] <= S
                    /\ b[2] < S => b[2] - b[1] = FiveMB
            /\ \A e \in EventsOf(j, "complete") :
                /\ Cardinality(partcalls) = CeilDiv(S, FiveMB)
                /\ Len(log[e].arg) = CeilDiv(S, FiveMB)
                /\ S = 0 => log[e].arg = <<>>
                /\ S > 0 => \E p \in partcalls : log[p].Body[2] = S

C11_Witness ==
    /\ N = 1
    /\ uploaded_files[1].size = 2 * FiveMB
    /\ \E e \in EventsOf(1, "complete") : log[e].res = "ok" /\ Len(log[e].arg) = 2
    /\ \A p \in EventsOf(1, "upload_part") : log[p].Body[2] - log[p].Body[1] = FiveMB

(***************************************************************************)
(* C12                                                                     *)
(***************************************************************************)
\* file j's multipart upload completed and its URL was generated
Linked(j) ==
    /\ \E e \in EventsOf(j, "complete") : log[e].res = "ok"
    /\ \E m \in EventsOf(j, "presign") : log[m].res = "ok"

\* the URLs of the linked files among the first n, in submission order
RECURSIVE ExpectedLinks(_)
ExpectedLinks(n) ==
    IF n = 0 THEN <<>>
    ELSE IF Linked(n)
         THEN Append(ExpectedLinks(n - 1), <<"url", 3600>> \o ConventionKey(n))
         ELSE ExpectedLinks(n - 1)

\* a create, upload_part or complete of file j failed
UploadFailed(j) ==
    \E k \in Idx : /\ log[k].i = j
                   /\ log[k].op \in {"create", "upload_part", "complete"}
                   /\ log[k].res = "err"

\* The list of links holds exactly the URLs of the files whose upload
\* completed and whose URL was generated, once each, in submission order.
LinksAreTheLinkedFiles ==
    /\ image_links = ExpectedLinks(N)
    /\ \A k \in Rendered : log[k].arg = ExpectedLinks(N)
    /\ \A j \in 1..N : UploadFailed(j) => ~Linked(j)

\* C12: multipart_upload returns the object key exactly when
\* complete_multipart_upload succeeded and returns None on every failure; the
\* links fed to the gallery are exactly the URLs of the files whose upload
\* completed and whose URL was generated, once each and in submission order,
\* with no link for a file whose upload failed or was aborted.
C12_ReturnValueAndLinks ==
    /\ pc \in {"after_mp", "remove"} =>
        /\ (object_path = ConventionKey(i)) <=>
              (\E e \in EventsOf(i, "complete") : log[e].res = "ok")
        /\ object_path # ConventionKey(i) => object_path = None
    /\ \A j \in 1..N :
        (UploadFailed(j) /\ j = i /\ pc \notin MpPcs) =>
            (pc \in {"after_mp", "remove"} /\ object_path = None)
    /\ LinksAreTheLinkedFiles

(***************************************************************************)
(* C13                                                                     *)
(***************************************************************************)
\* C13: the outcome shown depends on the gallery step only: whenever the
\* gallery upload and the generation of its URL succeed, the gallery object
\* exists and the UI shows the success message with the gallery link,
\* whatever happened to the files; the success message is shown in no other
\* case, and the failure message only when the gallery was uploaded and its
\* URL was not generated.
C13_OutcomeFromGalleryStep ==
    LET uploaded == \E g \in Idx : log[g].op = "upload_file" /\ log[g].res = "ok"
        signed   == \E g \in Idx : log[g].op = "g_presign" /\ log[g].res = "ok"
        unsigned == \E g \in Idx : log[g].op = "g_presign" /\ log[g].res = "err"
    IN  pc = "done" =>
            /\ (uploaded /\ signed) =>
                /\ ConventionGalleryKey \in objects
                /\ ui = <<Msg("success", None), Msg("header", None),
                          Msg("markdown_link", <<"url", 3600>> \o ConventionGalleryKey)>>
            /\ Shown("success") => (uploaded /\ signed)
            /\ Shown("failure") => (uploaded /\ unsigned)

C13_Witness ==
    /\ pc = "done"
    /\ N >= 2
    /\ \A j \in 1..N : UploadFailed(j)
    /\ \E k \in Rendered : log[k].arg = <<>>
    /\ Shown("success")
    /\ Shown("markdown_link")

====
